---------------------------- MODULE Spec2Model ----------------------------
(***************************************************************************)
(* A model of Bundlee (src/mod.ts, class Bundlee, the version of lines     *)
(* 222-510): the archive builder (recursiveReaddir, bundleFiles, bundle),  *)
(* the loader (import and its three strategies), the lookup and decode     *)
(* cache (has, get, preloadCache) and the restorer (restore).              *)
(*                                                                         *)
(* Representation.  A JavaScript string is a sequence of one-character     *)
(* strings, a byte array a sequence of numbers in 0..255, a base64 text a  *)
(* sequence of sextets 0..63 with 64 standing for the padding "=".  A      *)
(* plain JavaScript object is the function of its own properties; reading  *)
(* a property that is not an own property falls through to                 *)
(* Object.prototype (Lookup).                                              *)
(***************************************************************************)
EXTENDS Integers, Sequences, FiniteSets, TLC

-----------------------------------------------------------------------------
(* Bounds of the model *)

\* how many of the archive documents Docs an instance may load
NumDocs == 2
\* how many nodes of Universe a source tree holds at most
MaxFiles == 2
\* how many file operations of earlier restore calls may still be in
\* progress when the caller starts another restore
MaxLeft == 1

-----------------------------------------------------------------------------
(* Text: UTF-8 as TextEncoder / TextDecoder compute it *)

\* U+FFFD, what a non-fatal TextDecoder puts for a malformed sequence
Replacement == <<65533>>

\* U+FEFF, the byte order mark
BOM == <<65279>>

Cont(b) == b \in 128..191

\* TextEncoder.encode of one code point
Utf8EncodeOne(cp) ==
  IF cp < 128 THEN <<cp>>
  ELSE IF cp < 2048 THEN <<192 + (cp \div 64), 128 + (cp % 64)>>
  ELSE IF cp < 65536 THEN
    <<224 + (cp \div 4096), 128 + ((cp \div 64) % 64), 128 + (cp % 64)>>
  ELSE <<240 + (cp \div 262144), 128 + ((cp \div 4096) % 64),
         128 + ((cp \div 64) % 64), 128 + (cp % 64)>>

RECURSIVE Utf8Encode(_)
\* new TextEncoder().encode(text)
Utf8Encode(text) ==
  IF text = <<>> THEN <<>>
  ELSE Utf8EncodeOne(Head(text)) \o Utf8Encode(Tail(text))

RECURSIVE Utf8Scan(_)
\* the UTF-8 decoder of a TextDecoder that is not fatal: a malformed
\* sequence yields U+FFFD and decoding goes on after its maximal subpart
Utf8Scan(bs) ==
  IF bs = <<>> THEN <<>>
  ELSE
    LET b    == Head(bs)
        rest == Tail(bs)
        n    == Len(rest)
        lo   == IF b = 224 THEN 160 ELSE IF b = 240 THEN 144 ELSE 128
        hi   == IF b = 237 THEN 159 ELSE IF b = 244 THEN 143 ELSE 191
    IN
    IF b < 128 THEN <<b>> \o Utf8Scan(rest)
    ELSE IF b \in 194..223 THEN
      IF n >= 1 /\ Cont(rest[1])
      THEN <<(b - 192) * 64 + (rest[1] - 128)>> \o Utf8Scan(SubSeq(rest, 2, n))
      ELSE Replacement \o Utf8Scan(rest)
    ELSE IF b \in 224..239 THEN
      IF n >= 1 /\ rest[1] \in lo..hi
      THEN IF n >= 2 /\ Cont(rest[2])
           THEN <<(b - 224) * 4096 + (rest[1] - 128) * 64 + (rest[2] - 128)>>
                \o Utf8Scan(SubSeq(rest, 3, n))
           ELSE Replacement \o Utf8Scan(SubSeq(rest, 2, n))
      ELSE Replacement \o Utf8Scan(rest)
    ELSE IF b \in 240..244 THEN
      IF n >= 1 /\ rest[1] \in lo..hi
      THEN IF n >= 2 /\ Cont(rest[2])
           THEN IF n >= 3 /\ Cont(rest[3])
                THEN <<(b - 240) * 262144 + (rest[1] - 128) * 4096
                       + (rest[2] - 128) * 64 + (rest[3] - 128)>>
                     \o Utf8Scan(SubSeq(rest, 4, n))
                ELSE Replacement \o Utf8Scan(SubSeq(rest, 3, n))
           ELSE Replacement \o Utf8Scan(SubSeq(rest, 2, n))
      ELSE Replacement \o Utf8Scan(rest)
    ELSE Replacement \o Utf8Scan(rest)

\* new TextDecoder().decode(bytes): utf-8, fatal = false, ignoreBOM = false,
\* so a leading U+FEFF is not part of the output
TextDecode(bs) ==
  LET cps == Utf8Scan(bs)
  IN IF Len(cps) >= 1 /\ <<cps[1]>> = BOM THEN Tail(cps) ELSE cps

-----------------------------------------------------------------------------
(* gzip: CompressionStream("gzip") / DecompressionStream("gzip").  The      *)
(* member is kept in the shape of RFC 1952 with one stored DEFLATE block:  *)
(* magic and method, the block header with the length and its complement,  *)
(* the data, and a trailer with a check value and the size.  The check     *)
(* value stands for CRC-32 and is the sum of the bytes modulo 256.         *)

RECURSIVE ByteSum(_)
ByteSum(bs) == IF bs = <<>> THEN 0 ELSE (Head(bs) + ByteSum(Tail(bs))) % 256

Gzip(bs) ==
  <<31, 139, 8>> \o <<1, Len(bs), 255 - Len(bs)>> \o bs
  \o <<ByteSum(bs), Len(bs) % 256>>

\* [ok, val]: the decompressed bytes, or ok = FALSE when the stream errors
\* (bad magic, truncated member, length or check mismatch)
Gunzip(z) ==
  LET n    == Len(z)
      fail == [ok |-> FALSE, val |-> <<>>]
  IN
  IF n < 8 THEN fail
  ELSE IF SubSeq(z, 1, 4) # <<31, 139, 8, 1>> THEN fail
  ELSE IF z[5] + z[6] # 255 \/ z[5] # n - 8 THEN fail
  ELSE LET data == SubSeq(z, 7, n - 2)
       IN IF z[n - 1] = ByteSum(data) /\ z[n] = Len(data) % 256
          THEN [ok |-> TRUE, val |-> data]
          ELSE fail

-----------------------------------------------------------------------------
(* base64: encode / decode of deps.ts (std/encoding/base64) *)

RECURSIVE Base64Encode(_)
Base64Encode(bs) ==
  LET n == Len(bs) IN
  IF n = 0 THEN <<>>
  ELSE IF n = 1 THEN <<bs[1] \div 4, (bs[1] % 4) * 16, 64, 64>>
  ELSE IF n = 2 THEN
    <<bs[1] \div 4, (bs[1] % 4) * 16 + (bs[2] \div 16), (bs[2] % 16) * 4, 64>>
  ELSE
    <<bs[1] \div 4, (bs[1] % 4) * 16 + (bs[2] \div 16),
      (bs[2] % 16) * 4 + (bs[3] \div 64), bs[3] % 64>>
    \o Base64Encode(SubSeq(bs, 4, n))

RECURSIVE Base64Quads(_)
\* the bytes of a text whose length is a multiple of four and whose
\* padding, if any, closes the last quad
Base64Quads(s) ==
  IF s = <<>> THEN <<>>
  ELSE
    LET a == s[1]  b == s[2]  c == s[3]  d == s[4]
        rest == SubSeq(s, 5, Len(s))
    IN
    IF c = 64 THEN <<a * 4 + (b \div 16)>>
    ELSE IF d = 64 THEN <<a * 4 + (b \div 16), (b % 16) * 16 + (c \div 4)>>
    ELSE <<a * 4 + (b \div 16), (b % 16) * 16 + (c \div 4), (c % 4) * 64 + d>>
         \o Base64Quads(rest)

\* whether atob accepts the text
Base64WellFormed(s) ==
  LET n == Len(s) IN
  /\ n % 4 = 0
  /\ \A i \in 1..n : s[i] \in 0..64
  /\ \A i \in 1..n : s[i] = 64 =>
        /\ i >= n - 1
        /\ i >= 3
        /\ (i = n - 1 => s[n] = 64)

\* [ok, val]: the bytes, or ok = FALSE when decode throws
Base64Decode(s) ==
  IF Base64WellFormed(s)
  THEN [ok |-> TRUE, val |-> Base64Quads(s)]
  ELSE [ok |-> FALSE, val |-> <<>>]

-----------------------------------------------------------------------------
(* Paths: std/path of deps.ts on a POSIX host ("/" separates, every other  *)
(* character, the backslash included, may occur in a file name)            *)

RECURSIVE Split(_, _)
\* s.split(sep)
Split(s, sep) ==
  IF s = <<>> THEN << <<>> >>
  ELSE LET r == Split(Tail(s), sep)
       IN IF Head(s) = sep
          THEN << <<>> >> \o r
          ELSE << <<Head(s)>> \o r[1] >> \o Tail(r)

RECURSIVE JoinWith(_, _)
\* segs.join(sep)
JoinWith(segs, sep) ==
  IF segs = <<>> THEN <<>>
  ELSE IF Len(segs) = 1 THEN segs[1]
  ELSE segs[1] \o <<sep>> \o JoinWith(Tail(segs), sep)

RECURSIVE ReplaceAll(_, _, _)
\* s.replaceAll(from, to) for one-character from and to
ReplaceAll(s, from, to) ==
  IF s = <<>> THEN <<>>
  ELSE <<IF Head(s) = from THEN to ELSE Head(s)>> \o ReplaceAll(Tail(s), from, to)

DotDot == <<".", ".">>

RECURSIVE ResolveSegments(_, _, _)
\* normalizeString: drops empty and "." segments, lets ".." take back the
\* last segment kept; above the start ".." is kept only when allowAbove
ResolveSegments(segs, acc, allowAbove) ==
  IF segs = <<>> THEN acc
  ELSE
    LET s == Head(segs)  rest == Tail(segs) IN
    IF s = <<>> \/ s = <<".">> THEN ResolveSegments(rest, acc, allowAbove)
    ELSE IF s = DotDot THEN
      IF acc # <<>> /\ acc[Len(acc)] # DotDot
      THEN ResolveSegments(rest, SubSeq(acc, 1, Len(acc) - 1), allowAbove)
      ELSE IF allowAbove
           THEN ResolveSegments(rest, Append(acc, s), allowAbove)
           ELSE ResolveSegments(rest, acc, allowAbove)
    ELSE ResolveSegments(rest, Append(acc, s), allowAbove)

IsAbsolute(p) == p # <<>> /\ Head(p) = "/"

\* posix.normalize
Normalize(p) ==
  IF p = <<>> THEN <<".">>
  ELSE
    LET abs   == IsAbsolute(p)
        trail == p[Len(p)] = "/"
        body  == JoinWith(ResolveSegments(Split(p, "/"), <<>>, ~abs), "/")
        b2    == IF body = <<>> /\ ~abs THEN <<".">> ELSE body
        b3    == IF b2 # <<>> /\ trail THEN b2 \o <<"/">> ELSE b2
    IN IF abs THEN <<"/">> \o b3 ELSE b3

\* posix.join of two paths
Join(a, b) ==
  IF a = <<>> /\ b = <<>> THEN <<".">>
  ELSE IF a = <<>> THEN Normalize(b)
  ELSE IF b = <<>> THEN Normalize(a)
  ELSE Normalize(a \o <<"/">> \o b)

\* the segments of a normalized path, without the root
Segments(p) == ResolveSegments(Split(p, "/"), <<>>, ~IsAbsolute(p))

\* posix.dirname of a normalized path without a trailing separator
Dirname(p) ==
  LET segs == Split(p, "/")
      n    == Len(segs)
  IN IF n = 1 THEN <<".">>
     ELSE IF n = 2 /\ segs[1] = <<>> THEN <<"/">>
     ELSE JoinWith(SubSeq(segs, 1, n - 1), "/")

\* posix.basename
Basename(p) == LET segs == Split(p, "/") IN segs[Len(segs)]

\* the position of the last "." of a name, 0 when it has none
LastDot(name) ==
  LET dots == {i \in 1..Len(name) : name[i] = "."}
  IN IF dots = {} THEN 0 ELSE CHOOSE i \in dots : \A j \in dots : j <= i

\* parse(path).ext: from the last "." of the base name, "" when there is
\* none or when it opens the name
Ext(p) ==
  LET name == Basename(p)
      i    == LastDot(name)
  IN IF i <= 1 THEN <<>> ELSE SubSeq(name, i, Len(name))

RECURSIVE CommonPrefixLen(_, _)
CommonPrefixLen(a, b) ==
  IF a = <<>> \/ b = <<>> \/ Head(a) # Head(b) THEN 0
  ELSE 1 + CommonPrefixLen(Tail(a), Tail(b))

\* posix.relative(from, to) of two absolute paths
Relative(from, to) ==
  LET f == Segments(from)
      t == Segments(to)
      c == CommonPrefixLen(f, t)
      up == [i \in 1..(Len(f) - c) |-> DotDot]
  IN JoinWith(up \o SubSeq(t, c + 1, Len(t)), "/")

-----------------------------------------------------------------------------
(* JavaScript values *)

Undefined == [undefined |-> TRUE]

\* a plain object: its own properties, in the order they were created
EmptyObject == [keys |-> <<>>, own |-> [k \in {} |-> Undefined]]

\* some of the members every plain object inherits from Object.prototype:
\* "valueOf" and "toString" (Deno removes __proto__)
ObjectPrototypeKeys ==
  { <<"v", "a", "l", "u", "e", "O", "f">>,
    <<"t", "o", "S", "t", "r", "i", "n", "g">> }

\* the function object found on Object.prototype under key
Inherited(key) == [inherited |-> key]

\* obj[key]
Lookup(obj, key) ==
  IF key \in DOMAIN obj.own THEN obj.own[key]
  ELSE IF key \in ObjectPrototypeKeys THEN Inherited(key)
  ELSE Undefined

\* obj[key] = value
Put(obj, key, value) ==
  [keys |-> IF key \in DOMAIN obj.own THEN obj.keys ELSE Append(obj.keys, key),
   own  |-> [k \in DOMAIN obj.own \cup {key} |->
               IF k = key THEN value ELSE obj.own[k]]]

\* Object.keys(obj)
ObjectKeys(obj) == obj.keys

\* the truth value of an object, a function or undefined
Truthy(v) == v # Undefined

\* a Metadata value
IsMetadata(v) == DOMAIN v = {"content", "contentType", "lastModified"}

\* JSON.stringify of an archive: its members, own properties only, in order
JSONStringify(obj) ==
  [i \in 1..Len(obj.keys) |-> [k |-> obj.keys[i], v |-> obj.own[obj.keys[i]]]]

RECURSIVE ParseMembers(_, _)
ParseMembers(members, obj) ==
  IF members = <<>> THEN obj
  ELSE ParseMembers(Tail(members), Put(obj, Head(members).k, Head(members).v))

\* JSON.parse of such a text: a new plain object
JSONParse(text) == ParseMembers(text, EmptyObject)

-----------------------------------------------------------------------------
(* Content-Type Resolver *)

TXT == <<".", "t", "x", "t">>
BIN == <<".", "b", "i", "n">>

\* contentType(ext) of std/media_types; "" stands for undefined
MediaType(ext) ==
  IF ext = TXT THEN "text/plain; charset=UTF-8" ELSE ""

GetContentType(filePath) ==
  LET t == MediaType(Ext(filePath))
  IN IF t # "" THEN t ELSE "application/octet-stream"

-----------------------------------------------------------------------------
(* The source tree of a build: a set of nodes [path, kind, bytes, mtime];   *)
(* kind is "file", "dir" or "symlink", mtime is in milliseconds and -1     *)
(* when the platform gives none (stat's mtime null).  The directories are  *)
(* the nodes of kind "dir" and the proper prefixes of the paths.           *)

IsPrefix(a, b) == Len(a) <= Len(b) /\ SubSeq(b, 1, Len(a)) = a

\* the names Deno.readDir(dir) yields, as a set
ChildNames(tree, dir) ==
  LET d == Segments(dir)
  IN { Segments(n.path)[Len(d) + 1] :
         n \in { m \in tree : /\ IsPrefix(d, Segments(m.path))
                              /\ Len(Segments(m.path)) > Len(d) } }

IsDirectory(tree, p) ==
  \E n \in tree : \/ n.path = p /\ n.kind = "dir"
                  \/ /\ IsPrefix(Segments(p), Segments(n.path))
                     /\ Len(Segments(n.path)) > Len(Segments(p))

IsFile(tree, p) == \E n \in tree : n.path = p /\ n.kind = "file"

NodeAt(tree, p) == CHOOSE n \in tree : n.path = p

\* Deno.readDir(dir): the entries in the order the host gives them, which
\* is the order of their names in `order`
ReadDir(tree, dir, order) ==
  SelectSeq(order, LAMBDA name : name \in ChildNames(tree, dir))

\* the entries of dir as paths, in the order readDir yields them
Entries(tree, dir, order) ==
  LET names == ReadDir(tree, dir, order)
  IN [i \in 1..Len(names) |-> Join(dir, names[i])]

RECURSIVE GetFiles(_, _, _, _)
\* getFiles, as a loop over the entries still to visit: a directory is
\* replaced by its entries (the recursive call), a regular file is pushed
\* when the filter lets it through, anything else is passed over
GetFiles(tree, todo, extensionFilter, order) ==
  IF todo = <<>> THEN <<>>
  ELSE
    LET p    == Head(todo)
        rest == Tail(todo)
    IN
    IF IsDirectory(tree, p)
    THEN GetFiles(tree, Entries(tree, p, order) \o rest, extensionFilter, order)
    ELSE IF IsFile(tree, p)
    THEN (IF \/ ~extensionFilter.given
             \/ \E i \in 1..Len(extensionFilter.list) :
                   extensionFilter.list[i] = Ext(Basename(p))
          THEN <<p>>
          ELSE <<>>)
         \o GetFiles(tree, rest, extensionFilter, order)
    ELSE GetFiles(tree, rest, extensionFilter, order)

\* recursiveReaddir that does not go into the directories it meets
RecursiveReaddirFlat(tree, path, extensionFilter, order) ==
  IF IsDirectory(tree, path)
  THEN [ok |-> TRUE,
        val |-> GetFiles(tree,
                         SelectSeq(Entries(tree, path, order),
                                   LAMBDA p : IsFile(tree, p)),
                         extensionFilter, order)]
  ELSE [ok |-> FALSE, val |-> <<>>]

\* recursiveReaddir: [ok, val]; Deno.readDir of a directory that does not
\* exist throws
RecursiveReaddir(tree, path, extensionFilter, order) ==
  IF IsDirectory(tree, path)
  THEN [ok |-> TRUE,
        val |-> GetFiles(tree, Entries(tree, path, order), extensionFilter, order)]
  ELSE [ok |-> FALSE, val |-> <<>>]

-----------------------------------------------------------------------------
(* Entry Codec and Archive Builder *)

\* encode(gzip(bytes))
EncodeContent(bytes) == Base64Encode(Gzip(bytes))

\* (await Deno.stat(file)).mtime?.getTime() || 0
LastModified(node) == IF node.mtime = -1 THEN 0 ELSE node.mtime

\* the archive key of a file
RelativePath(basePath, file) == ReplaceAll(Relative(basePath, file), "\\", "/")

\* the Metadata bundleFiles stores for a file
BundleEntry(tree, file) ==
  [content      |-> EncodeContent(NodeAt(tree, file).bytes),
   contentType  |-> GetContentType(file),
   lastModified |-> LastModified(NodeAt(tree, file))]

RECURSIVE BundleInto(_, _, _, _)
BundleInto(tree, basePath, fileList, result) ==
  IF fileList = <<>> THEN result
  ELSE BundleInto(tree, basePath, Tail(fileList),
                  Put(result, RelativePath(basePath, Head(fileList)),
                      BundleEntry(tree, Head(fileList))))

BundleFiles(tree, basePath, fileList) ==
  BundleInto(tree, basePath, fileList, EmptyObject)

NoInputFiles == "No input files found"
ReadDirError == "NotFound: readdir"

\* a call the caller made, and how it settled
Returned(op, arg, res) == [op |-> op, arg |-> arg, res |-> res]

\* a settled call: its value, or the message of the error it threw
Ok(v)  == [ok |-> TRUE, err |-> "", val |-> v]
Err(m) == [ok |-> FALSE, err |-> m, val |-> Undefined]

\* bundle without the check of the file list
BundleUnchecked(tree, basePath, path, exts, order) ==
  LET fileList == RecursiveReaddir(tree, Join(basePath, path), exts, order)
  IN IF ~fileList.ok THEN Err(ReadDirError)
     ELSE Ok(BundleFiles(tree, basePath, fileList.val))

\* bundle(basePath, path, exts)
Bundle(tree, basePath, path, exts, order) ==
  LET fileList == RecursiveReaddir(tree, Join(basePath, path), exts, order)
  IN IF ~fileList.ok THEN Err(ReadDirError)
     ELSE IF Len(fileList.val) = 0 THEN Err(NoInputFiles)
     ELSE Ok(BundleFiles(tree, basePath, fileList.val))

-----------------------------------------------------------------------------
(* Lookup and Decode Cache: the pure part of has, get and preloadCache *)

NotLoaded == "No bundle loaded."
NotFound  == "Requested file not found in bundle."
DecodeFailed == "decode failed"

\* the body of get from the decode to the new Metadata: [ok, err, val]
DecodeEntry(metadata) ==
  IF ~IsMetadata(metadata) THEN Err(DecodeFailed)
  ELSE
    LET compressedContent == Base64Decode(metadata.content) IN
    IF ~compressedContent.ok THEN Err(DecodeFailed)
    ELSE
      LET raw == Gunzip(compressedContent.val) IN
      IF ~raw.ok THEN Err(DecodeFailed)
      ELSE Ok([content      |-> TextDecode(raw.val),
               contentType  |-> metadata.contentType,
               lastModified |-> metadata.lastModified])

\* has(filePath) on an instance whose loadedBundle is bundle
HasCall(bundle, filePath) ==
  IF bundle # Undefined /\ Lookup(bundle, filePath) # Undefined
  THEN TRUE
  ELSE FALSE

\* get(filePath) on an instance with this loadedBundle and cache:
\* [res, cache], the settled call and the cache it leaves
GetCall(bundle, c, filePath) ==
  IF bundle = Undefined THEN [res |-> Err(NotLoaded), cache |-> c]
  ELSE IF Truthy(Lookup(c, filePath))
  THEN [res |-> Ok(Lookup(c, filePath)), cache |-> c]
  ELSE
    LET metadata == Lookup(bundle, filePath) IN
    IF Truthy(metadata)
    THEN LET updatedMetadata == DecodeEntry(metadata)
         IN IF updatedMetadata.ok
            THEN [res   |-> updatedMetadata,
                  cache |-> Put(c, filePath, updatedMetadata.val)]
            ELSE [res |-> updatedMetadata, cache |-> c]
    ELSE [res |-> Err(NotFound), cache |-> c]

RECURSIVE PreloadKeys(_, _, _)
\* the loop of preloadCache over the keys left: [res, cache]
PreloadKeys(bundle, c, fileKeys) ==
  IF fileKeys = <<>> THEN [res |-> Ok(Undefined), cache |-> c]
  ELSE LET g == GetCall(bundle, c, Head(fileKeys))
       IN IF g.res.ok
          THEN PreloadKeys(bundle, g.cache, Tail(fileKeys))
          ELSE [res |-> g.res, cache |-> g.cache]

PreloadCall(bundle, c) ==
  IF bundle = Undefined THEN [res |-> Err(NotLoaded), cache |-> c]
  ELSE PreloadKeys(bundle, c, ObjectKeys(bundle))

-----------------------------------------------------------------------------
(* The filesystem restore writes to: the directories made, and the files   *)
(* with their bytes and times.  A time is the instant of the write, or     *)
(* the seconds a utime call passed.                                        *)

EmptyFs == [dirs |-> {}, files |-> [p \in {} |-> Undefined]]

WriteTime == [now |-> TRUE]

\* lastModified / 1000, in seconds and the milliseconds left
Seconds(ms) == [s |-> ms \div 1000, ms |-> ms % 1000]

\* dir and the directories above it, the root left out
Ancestors(dir) ==
  LET segs == Split(dir, "/")
  IN { JoinWith(SubSeq(segs, 1, i), "/") : i \in 1..Len(segs) } \ { <<>> }

\* Deno.mkdir(dir, { recursive: true }): [ok, fs]; it throws when a file
\* stands where a directory is needed
Mkdir(f, dir) ==
  IF \E a \in Ancestors(dir) : a \in DOMAIN f.files
  THEN [ok |-> FALSE, fs |-> f]
  ELSE [ok |-> TRUE, fs |-> [f EXCEPT !.dirs = @ \cup Ancestors(dir)]]

\* Deno.writeFile(path, bytes): [ok, fs]; it throws on a directory
WriteFile(f, path, bytes) ==
  IF path \in f.dirs THEN [ok |-> FALSE, fs |-> f]
  ELSE [ok |-> TRUE,
        fs |-> [f EXCEPT !.files =
                  [q \in DOMAIN f.files \cup {path} |->
                     IF q = path
                     THEN [bytes |-> bytes,
                           atime |-> IF path \in DOMAIN f.files
                                     THEN f.files[path].atime ELSE WriteTime,
                           mtime |-> WriteTime]
                     ELSE f.files[q]]]]

\* Deno.utime(path, atime, mtime): [ok, fs]; it throws when nothing is there
Utime(f, path, atime, mtime) ==
  IF path \notin DOMAIN f.files THEN [ok |-> FALSE, fs |-> f]
  ELSE [ok |-> TRUE,
        fs |-> [f EXCEPT !.files[path].atime = atime,
                         !.files[path].mtime = mtime]]

-----------------------------------------------------------------------------
(* Inputs *)

BasePath == <<"/", "w">>
SitePath == <<"s">>
Target   == <<"o">>

NameA  == <<"a", ".", "t", "x", "t">>
NameB  == <<"b", ".", "t", "x", "t">>
NameM  == <<"m", ".", "t", "x", "t">>
NameE  == <<"e", ".", "b", "i", "n">>
NameD  == <<"d">>
NameDB == <<"d", "\\", "b", ".", "t", "x", "t">>
NameV  == <<"v", "a", "l", "u", "e", "O", "f">>
NameL  == <<"l">>
NameX  == <<"x">>

Site(name)    == BasePath \o <<"/">> \o SitePath \o <<"/">> \o name
SiteSub(name) == Site(NameD \o <<"/">> \o name)

File(path, bytes, mtime) ==
  [path |-> path, kind |-> "file", bytes |-> bytes, mtime |-> mtime]

\* the order in which the host lists directory entries
Order ==
  <<NameA, NameB, NameD, NameDB, NameE, NameL, NameM, NameV, NameX, SitePath>>

Reverse(sq) == [i \in 1..Len(sq) |-> sq[Len(sq) + 1 - i]]

NoFilter == [given |-> FALSE, list |-> <<>>]
Filter(list) == [given |-> TRUE, list |-> list]

\* three versions of a site, and the archive document built from each
SiteV1 == { File(Site(NameA), Utf8Encode(<<104, 105>>), 1000),
            File(SiteSub(NameB), Utf8Encode(<<233>>), 2500) }
SiteV2 == { File(Site(NameA), Utf8Encode(<<121, 111>>), 3000) }
SiteV3 == { File(SiteSub(NameB), Utf8Encode(<<233, 33>>), 4000) }

DocOf(site) ==
  JSONStringify(Bundle(site, BasePath, SitePath, NoFilter, Order).val)

Docs == <<DocOf(SiteV1), DocOf(SiteV2), DocOf(SiteV3)>>

Min(a, b) == IF a <= b THEN a ELSE b

\* the sources a load can name: the first NumDocs documents
DocIds == 1..Min(NumDocs, 3)

\* an archive document that was not built from files: a sound entry, then
\* one whose gzip stream is cut short, one whose content is not base64 (65
\* stands for a character outside the alphabet), and one whose bytes are
\* not UTF-8
CorruptDoc ==
  << [k |-> SitePath \o <<"/">> \o NameA,
      v |-> [content |-> EncodeContent(Utf8Encode(<<104, 105>>)),
             contentType |-> "text/plain; charset=UTF-8",
             lastModified |-> 1000]],
     [k |-> <<"g">>,
      v |-> [content |-> Base64Encode(SubSeq(Gzip(<<97>>), 1, 7)),
             contentType |-> "application/octet-stream",
             lastModified |-> 2000]],
     [k |-> <<"b">>,
      v |-> [content |-> <<7, 65, 1, 1>>,
             contentType |-> "application/octet-stream",
             lastModified |-> 3000]],
     [k |-> <<"u">>,
      v |-> [content |-> EncodeContent(<<255>>),
             contentType |-> "application/octet-stream",
             lastModified |-> 4000]] >>


\* an archive document whose keys are not paths below the base: an
\* absolute one, one with ".." inside that stays below, and one that
\* starts with ".."
EscapeDoc ==
  << [k |-> <<"/", "r">>,
      v |-> [content |-> EncodeContent(Utf8Encode(<<114>>)),
             contentType |-> "application/octet-stream",
             lastModified |-> 1000]],
     [k |-> <<"d", "/", ".", ".", "/", "y">>,
      v |-> [content |-> EncodeContent(Utf8Encode(<<121>>)),
             contentType |-> "application/octet-stream",
             lastModified |-> 2000]],
     [k |-> <<".", ".", "/", "x">>,
      v |-> [content |-> EncodeContent(Utf8Encode(<<120>>)),
             contentType |-> "application/octet-stream",
             lastModified |-> 3000]] >>

\* a path no archive holds
AbsentPaths == { <<"n">> }

\* the working directory of a build, which is there whatever else is
RootDir == [path |-> BasePath, kind |-> "dir", bytes |-> <<>>, mtime |-> 0]

\* what a source tree may hold: text files, one in a subdirectory, an empty
\* one whose name has a backslash, one that starts with a byte order mark,
\* one named as a member of Object.prototype; a file that is not UTF-8 and
\* has no mtime; a symbolic link; an empty directory
Universe ==
  { File(Site(NameA), Utf8Encode(<<104, 105>>), 1000),
    File(SiteSub(NameB), Utf8Encode(<<233>>), 2500),
    File(Site(NameDB), <<>>, 3000),
    File(Site(NameM), Utf8Encode(BOM \o <<97>>), 4000),
    File(BasePath \o <<"/">> \o NameV, Utf8Encode(<<118>>), 5000),
    File(Site(NameE), <<255>>, -1),
    [path |-> Site(NameL), kind |-> "symlink", bytes |-> <<>>, mtime |-> 0],
    [path |-> Site(NameX), kind |-> "dir", bytes |-> <<>>, mtime |-> 0] }

\* the source trees of at most MaxFiles nodes
Trees ==
  { {RootDir} \cup t : t \in { u \in SUBSET Universe : Cardinality(u) <= MaxFiles } }

\* the path and extension arguments of a build
BundlePaths == { <<>>, SitePath }
ExtensionFilters ==
  { NoFilter, Filter(<<>>), Filter(<<TXT>>), Filter(<<<<".", "T", "X", "T">>, BIN>>) }

ImportTypes == {"fetch", "import", "local"}

-----------------------------------------------------------------------------
(* State *)

VARIABLES
  loadedBundle,  \* Bundlee.loadedBundle: Undefined or the archive object
  cache,         \* Bundlee.cache
  ret,           \* the last call the caller made: [op, arg, res]
  fs,            \* the filesystem restore writes to
  rs,            \* the restore call in progress: [pc, keys, metadata]
  ops,           \* the file operations restore started: [path, bytes, lm, st, cur]
  tree,          \* the source tree of a build
  built,         \* the bundle call made on it: [stage, path, exts, walk, res]
  sources,       \* the archive documents a load can read, by number
  decoding       \* the get suspended at an await of its decoding: [on, filePath, metadata]

vars == <<loadedBundle, cache, ret, fs, rs, ops, tree, built, sources, decoding>>

instanceVars == <<loadedBundle, cache, ret, fs, rs, ops>>
buildVars    == <<tree, built, sources>>

\* a call that has not settled
Pending == [ok |-> FALSE, err |-> "(pending)", val |-> Undefined]

Idle == [pc |-> "idle", keys |-> <<>>, metadata |-> Undefined]

\* no get is suspended
NoGet == [on |-> FALSE, filePath |-> <<>>, metadata |-> Undefined]

NotBuilt ==
  [stage |-> "start", path |-> <<>>, exts |-> NoFilter,
   walk |-> [ok |-> FALSE, val |-> <<>>], res |-> Pending]

\* new Bundlee()
InitInstance ==
  /\ loadedBundle = Undefined
  /\ cache = EmptyObject
  /\ ret = Returned("new", <<>>, Ok(Undefined))
  /\ fs = EmptyFs
  /\ rs = Idle
  /\ ops = <<>>
  /\ decoding = NoGet

\* an instance, and the documents built from the versions of a site
Init ==
  /\ InitInstance
  /\ tree = {}
  /\ built = NotBuilt
  /\ sources = [i \in DocIds |-> Docs[i]]

-----------------------------------------------------------------------------
(* Archive Loader.  A source is the number of the document it holds, or 0  *)
(* when it cannot be read, fetched, parsed or imported.                    *)

FetchFailed  == "Failed to fetch bundle"
ReadFailed   == "readTextFile or JSON.parse threw"
ModuleFailed == "import() rejected"

\* importRemote without the check of response.ok: the body of the error
\* response, an empty object, is taken for the archive
ImportRemoteUnchecked(src) ==
  /\ rs.pc = "idle"
  /\ \/ /\ src \in DOMAIN sources
        /\ loadedBundle' = JSONParse(sources[src])
     \/ /\ src \notin DOMAIN sources
        /\ loadedBundle' = EmptyObject
  /\ ret' = Returned("importRemote", <<>>, Ok(Undefined))
  /\ UNCHANGED <<cache, fs, rs, ops, buildVars, decoding>>

ImportRemote(src) ==
  /\ rs.pc = "idle"
  /\ \/ /\ src \in DOMAIN sources
        /\ loadedBundle' = JSONParse(sources[src])
        /\ ret' = Returned("importRemote", <<>>, Ok(Undefined))
     \/ /\ src \notin DOMAIN sources
        /\ ret' = Returned("importRemote", <<>>, Err(FetchFailed))
        /\ UNCHANGED loadedBundle
  /\ UNCHANGED <<cache, fs, rs, ops, buildVars, decoding>>

ImportLocal(src) ==
  /\ rs.pc = "idle"
  /\ \/ /\ src \in DOMAIN sources
        /\ loadedBundle' = JSONParse(sources[src])
        /\ ret' = Returned("importLocal", <<>>, Ok(Undefined))
     \/ /\ src \notin DOMAIN sources
        /\ ret' = Returned("importLocal", <<>>, Err(ReadFailed))
        /\ UNCHANGED loadedBundle
  /\ UNCHANGED <<cache, fs, rs, ops, buildVars, decoding>>

ImportAsModule(src) ==
  /\ rs.pc = "idle"
  /\ \/ /\ src \in DOMAIN sources
        /\ loadedBundle' = JSONParse(sources[src])
        /\ ret' = Returned("importAsModule", <<>>, Ok(Undefined))
     \/ /\ src \notin DOMAIN sources
        /\ ret' = Returned("importAsModule", <<>>, Err(ModuleFailed))
        /\ UNCHANGED loadedBundle
  /\ UNCHANGED <<cache, fs, rs, ops, buildVars, decoding>>

\* import(fileUrl, importType)
Import(src, importType) ==
  \/ importType = "fetch" /\ ImportRemote(src)
  \/ importType = "import" /\ ImportAsModule(src)
  \/ importType \notin {"fetch", "import"} /\ ImportLocal(src)

LoadOps == {"importRemote", "importLocal", "importAsModule"}

\* the method import(fileUrl, importType) hands the file to
ImportMethod(importType) ==
  IF importType = "fetch" THEN "importRemote"
  ELSE IF importType = "import" THEN "importAsModule"
  ELSE "importLocal"

\* the importType parameter defaults of import() and of load()
ImportDefaultType == "import"
LoadDefaultType   == "local"

\* instance.import(fileUrl)
ImportDefault(src) == Import(src, ImportDefaultType)

\* Bundlee.load(fileUrl, importType): a new instance imports the file, and
\* the caller goes on with it when the import succeeded.  The call records
\* the import method it went through.
Load(src, importType) ==
  /\ rs.pc = "idle"
  /\ IF src \in DOMAIN sources
     THEN /\ loadedBundle' = JSONParse(sources[src])
          /\ cache' = EmptyObject
          /\ ret' = Returned("load", <<ImportMethod(importType)>>, Ok(Undefined))
     ELSE /\ ret' = Returned("load", <<ImportMethod(importType)>>,
                             Err(CASE importType = "fetch" -> FetchFailed
                                   [] importType = "import" -> ModuleFailed
                                   [] OTHER -> ReadFailed))
          /\ UNCHANGED <<loadedBundle, cache>>
  /\ UNCHANGED <<fs, rs, ops, buildVars, decoding>>

\* Bundlee.load(fileUrl)
LoadDefault(src) == Load(src, LoadDefaultType)

-----------------------------------------------------------------------------
(* Lookup and Decode Cache: the calls *)

\* the keys of the documents there are
SourceKeys ==
  UNION { { sources[i][j].k : j \in 1..Len(sources[i]) } : i \in DOMAIN sources }

\* the paths a caller asks for
QueryPaths == AbsentPaths \cup SourceKeys

Has(filePath) ==
  /\ rs.pc = "idle"
  /\ ret' = Returned("has", filePath, Ok(HasCall(loadedBundle, filePath)))
  /\ UNCHANGED <<loadedBundle, cache, fs, rs, ops, buildVars, decoding>>

Get(filePath) ==
  /\ rs.pc = "idle"
  /\ LET g == GetCall(loadedBundle, cache, filePath)
     IN /\ cache' = g.cache
        /\ ret' = Returned("get", filePath, g.res)
  /\ UNCHANGED <<loadedBundle, fs, rs, ops, buildVars, decoding>>

PreloadCache ==
  /\ rs.pc = "idle"
  /\ LET g == PreloadCall(loadedBundle, cache)
     IN /\ cache' = g.cache
        /\ ret' = Returned("preloadCache", <<>>, g.res)
  /\ UNCHANGED <<loadedBundle, fs, rs, ops, buildVars, decoding>>

-----------------------------------------------------------------------------
(* Restorer.  restore runs its loop one await at a time; the writes and    *)
(* utimes it started go on beside it.                                      *)

\* what restore writes for the Metadata get gave it
ContentBytes(metadata) ==
  IF IsMetadata(metadata) THEN Utf8Encode(metadata.content) ELSE <<>>

\* after the loop body of the first key: the next key, or Promise.all
NextKey(keys) ==
  [pc |-> IF Len(keys) > 1 THEN "get" ELSE "all",
   keys |-> Tail(keys), metadata |-> Undefined]

\* restore without the check of loadedBundle, the loop being over no key
RestoreBeginUnguarded ==
  /\ rs.pc = "idle"
  /\ Len(ops) <= MaxLeft
  /\ ret' = Returned("restore", Target, Pending)
  /\ rs' = IF loadedBundle = Undefined
           THEN [pc |-> "all", keys |-> <<>>, metadata |-> Undefined]
           ELSE [pc |-> IF ObjectKeys(loadedBundle) = <<>> THEN "all" ELSE "get",
                 keys |-> ObjectKeys(loadedBundle), metadata |-> Undefined]
  /\ UNCHANGED <<loadedBundle, cache, fs, ops, buildVars, decoding>>

\* restore(targetPath) up to its loop
RestoreBegin ==
  /\ rs.pc = "idle"
  /\ Len(ops) <= MaxLeft
  /\ IF loadedBundle = Undefined
     THEN /\ ret' = Returned("restore", Target, Err(NotLoaded))
          /\ UNCHANGED rs
     ELSE /\ ret' = Returned("restore", Target, Pending)
          /\ rs' = [pc |-> IF ObjectKeys(loadedBundle) = <<>> THEN "all" ELSE "get",
                    keys |-> ObjectKeys(loadedBundle), metadata |-> Undefined]
  /\ UNCHANGED <<loadedBundle, cache, fs, ops, buildVars, decoding>>

\* the operations a settled restore leaves running
LeftRunning(os) ==
  LET running == SelectSeq(os, LAMBDA o : o.st \in {"writing", "utime"})
  IN [i \in 1..Len(running) |-> [running[i] EXCEPT !.cur = FALSE]]

\* const metadata = await this.get(key)
RestoreGet ==
  /\ rs.pc = "get"
  /\ LET g == GetCall(loadedBundle, cache, Head(rs.keys))
     IN /\ cache' = g.cache
        /\ IF g.res.ok
           THEN /\ rs' = [rs EXCEPT !.pc = "mkdir", !.metadata = g.res.val]
                /\ UNCHANGED ret
           ELSE /\ rs' = Idle
                /\ ret' = Returned("restore", Target, g.res)
        /\ ops' = IF g.res.ok THEN ops ELSE LeftRunning(ops)
  /\ UNCHANGED <<loadedBundle, fs, buildVars, decoding>>

MkdirFailed == "mkdir threw"
WriteFailed == "writeFile or utime rejected"

\* await Deno.mkdir(dirname(restoredFilePath)), then the write is started
\* and the utime chained to it
RestoreMkdir ==
  /\ rs.pc = "mkdir"
  /\ LET restoredFilePath == Join(Target, Head(rs.keys))
         made == Mkdir(fs, Dirname(restoredFilePath))
     IN IF made.ok
        THEN /\ fs' = made.fs
             /\ ops' = Append(ops, [path  |-> restoredFilePath,
                                    bytes |-> ContentBytes(rs.metadata),
                                    lm    |-> rs.metadata.lastModified,
                                    st    |-> "writing",
                                    cur   |-> TRUE])
             /\ rs' = NextKey(rs.keys)
             /\ UNCHANGED ret
        ELSE /\ rs' = Idle
             /\ ret' = Returned("restore", Target, Err(MkdirFailed))
             /\ ops' = LeftRunning(ops)
             /\ UNCHANGED fs
  /\ UNCHANGED <<loadedBundle, cache, buildVars, decoding>>

\* operation i has gone on to st; an operation that has finished and is
\* not one of a restore in progress is forgotten
Advance(os, i, st) ==
  IF st \in {"done", "failed"} /\ ~os[i].cur
  THEN SubSeq(os, 1, i - 1) \o SubSeq(os, i + 1, Len(os))
  ELSE [os EXCEPT ![i].st = st]

\* a Deno.writeFile that restore started completes; its then-callback
\* starts Deno.utime
WriteComplete(i) ==
  /\ ops[i].st = "writing"
  /\ LET w == WriteFile(fs, ops[i].path, ops[i].bytes)
     IN /\ fs' = w.fs
        /\ ops' = Advance(ops, i, IF w.ok THEN "utime" ELSE "failed")
  /\ UNCHANGED <<loadedBundle, cache, ret, rs, buildVars, decoding>>

\* Deno.utime(restoredFilePath, lastModified / 1000, lastModified / 1000)
UtimeComplete(i) ==
  /\ ops[i].st = "utime"
  /\ LET u == Utime(fs, ops[i].path, Seconds(ops[i].lm), Seconds(ops[i].lm))
     IN /\ fs' = u.fs
        /\ ops' = Advance(ops, i, IF u.ok THEN "done" ELSE "failed")
  /\ UNCHANGED <<loadedBundle, cache, ret, rs, buildVars, decoding>>

\* Promise.allSettled in the place of Promise.all: restore resolves when
\* none of its operations is in progress any more
RestoreSettleAllSettled ==
  /\ rs.pc = "all"
  /\ LET mine == SelectSeq(ops, LAMBDA o : o.cur)
     IN /\ \A i \in 1..Len(mine) : mine[i].st \in {"done", "failed"}
        /\ ret' = Returned("restore", Target, Ok(Undefined))
  /\ rs' = Idle
  /\ ops' = LeftRunning(ops)
  /\ UNCHANGED <<loadedBundle, cache, fs, buildVars, decoding>>

\* await Promise.all(writePromises)
RestoreSettle ==
  /\ rs.pc = "all"
  /\ LET mine == SelectSeq(ops, LAMBDA o : o.cur)
     IN \/ /\ \E i \in 1..Len(mine) : mine[i].st = "failed"
           /\ ret' = Returned("restore", Target, Err(WriteFailed))
        \/ /\ \A i \in 1..Len(mine) : mine[i].st = "done"
           /\ ret' = Returned("restore", Target, Ok(Undefined))
  /\ rs' = Idle
  /\ ops' = LeftRunning(ops)
  /\ UNCHANGED <<loadedBundle, cache, fs, buildVars, decoding>>

-----------------------------------------------------------------------------
(* One instance and its caller, who makes one call at a time *)

Next ==
  \/ \E src \in {0} \cup DocIds : \E importType \in ImportTypes :
        Import(src, importType)
  \/ \E filePath \in QueryPaths : Has(filePath)
  \/ \E filePath \in QueryPaths : Get(filePath)
  \/ PreloadCache
  \/ RestoreBegin
  \/ RestoreGet
  \/ RestoreMkdir
  \/ \E i \in 1..Len(ops) : WriteComplete(i)
  \/ \E i \in 1..Len(ops) : UtimeComplete(i)
  \/ RestoreSettle

Spec == Init /\ [][Next]_vars

-----------------------------------------------------------------------------
(* The same instance on a host whose filesystem calls may fail, and with   *)
(* an archive document that holds corrupt entries                          *)

\* Deno.mkdir throws (permission, read-only filesystem, ...)
RestoreMkdirThrows ==
  /\ rs.pc = "mkdir"
  /\ rs' = Idle
  /\ ret' = Returned("restore", Target, Err(MkdirFailed))
  /\ ops' = LeftRunning(ops)
  /\ UNCHANGED <<loadedBundle, cache, fs, buildVars, decoding>>

\* a Deno.writeFile that rejects, with the utime chained by finally in the
\* place of then: it is started all the same
WriteRejectsThenUtime(i) ==
  /\ ops[i].st = "writing"
  /\ ops' = Advance(ops, i, "utime")
  /\ UNCHANGED <<loadedBundle, cache, ret, fs, rs, buildVars, decoding>>

\* a Deno.writeFile that restore started rejects; the then-callback does
\* not run and the promise chained to it rejects too
WriteRejects(i) ==
  /\ ops[i].st = "writing"
  /\ ops' = Advance(ops, i, "failed")
  /\ UNCHANGED <<loadedBundle, cache, ret, fs, rs, buildVars, decoding>>

\* a Deno.utime that restore started rejects
UtimeRejects(i) ==
  /\ ops[i].st = "utime"
  /\ ops' = Advance(ops, i, "failed")
  /\ UNCHANGED <<loadedBundle, cache, ret, fs, rs, buildVars, decoding>>

InitIO ==
  /\ InitInstance
  /\ tree = {}
  /\ built = NotBuilt
  /\ sources = <<Docs[1], CorruptDoc>>

NextIO ==
  \/ \E src \in {0, 1, 2} : \E importType \in ImportTypes :
        Import(src, importType)
  \/ \E filePath \in QueryPaths : Get(filePath)
  \/ RestoreBegin
  \/ RestoreGet
  \/ RestoreMkdir
  \/ \E i \in 1..Len(ops) : WriteComplete(i)
  \/ \E i \in 1..Len(ops) : UtimeComplete(i)
  \/ RestoreSettle
  \/ RestoreMkdirThrows
  \/ \E i \in 1..Len(ops) : WriteRejects(i)
  \/ \E i \in 1..Len(ops) : UtimeRejects(i)

SpecIO == InitIO /\ [][NextIO]_vars

\* an instance that restores archives whose keys were not made by bundle
\* from files below basePath
InitAnyKey ==
  /\ InitInstance
  /\ tree = {}
  /\ built = NotBuilt
  /\ sources = <<Docs[1], EscapeDoc>>

NextAnyKey ==
  \/ \E src \in {0, 1, 2} : \E importType \in ImportTypes :
        Import(src, importType)
  \/ RestoreBegin
  \/ RestoreGet
  \/ RestoreMkdir
  \/ \E i \in 1..Len(ops) : WriteComplete(i)
  \/ \E i \in 1..Len(ops) : UtimeComplete(i)
  \/ RestoreSettle

SpecAnyKey == InitAnyKey /\ [][NextAnyKey]_vars

\* the same, with a caller who also asks for names of Object.prototype
NextAnyPath ==
  \/ Next
  \/ \E filePath \in ObjectPrototypeKeys : Has(filePath)
  \/ \E filePath \in ObjectPrototypeKeys : Get(filePath)

SpecAnyPath == Init /\ [][NextAnyPath]_vars

-----------------------------------------------------------------------------
(* The same instance with a caller who does not wait for a get before the  *)
(* next call: get runs up to the await of its decompression, and goes on   *)
(* when the stream has been read.                                          *)

\* get(filePath) up to "await writer.close()": the checks, the cache, the
\* entry read from loadedBundle and its base64 decoded
GetBegin(filePath) ==
  /\ rs.pc = "idle"
  /\ ~decoding.on
  /\ LET metadata == Lookup(loadedBundle, filePath)
     IN IF loadedBundle = Undefined
        THEN /\ ret' = Returned("get", filePath, Err(NotLoaded))
             /\ UNCHANGED decoding
        ELSE IF Truthy(Lookup(cache, filePath))
        THEN /\ ret' = Returned("get", filePath, Ok(Lookup(cache, filePath)))
             /\ UNCHANGED decoding
        ELSE IF ~Truthy(metadata)
        THEN /\ ret' = Returned("get", filePath, Err(NotFound))
             /\ UNCHANGED decoding
        ELSE IF ~IsMetadata(metadata) \/ ~Base64Decode(metadata.content).ok
        THEN /\ ret' = Returned("get", filePath, Err(DecodeFailed))
             /\ UNCHANGED decoding
        ELSE /\ decoding' = [on |-> TRUE, filePath |-> filePath,
                             metadata |-> metadata]
             /\ UNCHANGED ret
  /\ UNCHANGED <<loadedBundle, cache, fs, rs, ops, buildVars>>

\* the rest of get: the text of the decompressed bytes, the new Metadata
\* stored in the cache and returned
GetFinish ==
  /\ decoding.on
  /\ LET updatedMetadata == DecodeEntry(decoding.metadata)
     IN /\ cache' = IF updatedMetadata.ok
                    THEN Put(cache, decoding.filePath, updatedMetadata.val)
                    ELSE cache
        /\ ret' = Returned("get", decoding.filePath, updatedMetadata)
  /\ decoding' = NoGet
  /\ UNCHANGED <<loadedBundle, fs, rs, ops, buildVars>>

NextConcurrent ==
  \/ \E src \in {0} \cup DocIds : \E importType \in ImportTypes :
        Import(src, importType)
  \/ \E filePath \in QueryPaths : Has(filePath)
  \/ \E filePath \in QueryPaths : GetBegin(filePath)
  \/ GetFinish

SpecConcurrent == Init /\ [][NextConcurrent]_vars

\* the same instance, with a caller who also uses the load() factory and
\* leaves importType out
NextDefaults ==
  \/ Next
  \/ \E src \in {0} \cup DocIds : \E importType \in ImportTypes :
        Load(src, importType)
  \/ \E src \in {0} \cup DocIds : LoadDefault(src)
  \/ \E src \in {0} \cup DocIds : ImportDefault(src)

SpecDefaults == Init /\ [][NextDefaults]_vars

-----------------------------------------------------------------------------
(* A build and the instance that loads its result: bundle(), the JSON     *)
(* text written from the archive (the CLI's writeTextFile), import, get.  *)

\* Bundlee.bundle(basePath, path, exts); walk is what recursiveReaddir
\* yielded for the call
DoBundle(path, exts, order) ==
  /\ built.stage = "start"
  /\ LET res == Bundle(tree, BasePath, path, exts, order)
     IN /\ built' = [stage |-> "bundled", path |-> path, exts |-> exts,
                     walk |-> RecursiveReaddir(tree, Join(BasePath, path),
                                               exts, order),
                     res |-> res]
        /\ ret' = Returned("bundle", path, res)
  /\ UNCHANGED <<loadedBundle, cache, fs, rs, ops, tree, sources, decoding>>

\* Deno.writeTextFile(bundleFile, JSON.stringify(bundle))
WriteBundle ==
  /\ built.stage = "bundled"
  /\ built.res.ok
  /\ built' = [built EXCEPT !.stage = "written"]
  /\ sources' = (1 :> JSONStringify(built.res.val))
  /\ UNCHANGED <<loadedBundle, cache, ret, fs, rs, ops, tree, decoding>>

InitBundle ==
  /\ InitInstance
  /\ tree \in Trees
  /\ built = NotBuilt
  /\ sources = <<>>

NextBundle ==
  \/ \E path \in BundlePaths : \E exts \in ExtensionFilters :
        \E order \in {Order, Reverse(Order)} : DoBundle(path, exts, order)
  \/ WriteBundle
  \/ \E src \in {0, 1} : \E importType \in ImportTypes :
        Import(src, importType)
  \/ \E filePath \in QueryPaths : Has(filePath)
  \/ \E filePath \in QueryPaths : Get(filePath)
  \/ PreloadCache

SpecBundle == InitBundle /\ [][NextBundle]_vars

-----------------------------------------------------------------------------
(* Properties *)

\* the keys of the archive an instance holds
ArchiveKeys == IF loadedBundle = Undefined THEN {} ELSE DOMAIN loadedBundle.own

\* what decoding the entry the current archive stores under filePath gives
DecodedCurrent(filePath) == DecodeEntry(loadedBundle.own[filePath]).val

\* two Metadata values with the same content, contentType and lastModified
SameMetadata(a, b) ==
  /\ IsMetadata(a)
  /\ IsMetadata(b)
  /\ a.content = b.content
  /\ a.contentType = b.contentType
  /\ a.lastModified = b.lastModified

\* a call that threw the error with this message
Failed(res, message) == ~res.ok /\ res.err = message

\* an object without own properties
IsEmptyObject(obj) == ObjectKeys(obj) = <<>> /\ DOMAIN obj.own = {}

\* the time utime set from a number of milliseconds
TimeIs(t, ms) == DOMAIN t = {"s", "ms"} /\ t.s = ms \div 1000 /\ t.ms = ms % 1000

\* C1: a get that succeeds returns the decoded form of the entry the
\* currently loaded archive stores under the path: the same content,
\* contentType and lastModified, whether or not the cache answered.
GetReturnsCurrentEntry ==
  (ret.op = "get" /\ ret.res.ok) =>
    /\ ret.arg \in ArchiveKeys
    /\ SameMetadata(ret.res.val, DecodedCurrent(ret.arg))

\* C2: when a load has just completed successfully, the decode cache is
\* empty, whatever gets and preloads came before.
LoadClearsCache ==
  (ret.op \in LoadOps /\ ret.res.ok) => IsEmptyObject(cache)

\* C3: in every state, every key of the decode cache is a key of the
\* currently loaded archive.
CacheKeysInArchive == DOMAIN cache.own \subseteq ArchiveKeys

\* C4: with an archive loaded, a get of a path that is not a key of the
\* current archive fails with "Requested file not found in bundle." and
\* returns no entry.
AbsentPathNotFound ==
  (ret.op = "get" /\ loadedBundle # Undefined /\ ret.arg \notin ArchiveKeys) =>
    Failed(ret.res, NotFound)

\* C5: has never fails, and returns true exactly when the path is a key of
\* the currently loaded archive (false when nothing is loaded).
HasIffKey ==
  ret.op = "has" => ret.res.ok /\ ret.res.val = (ret.arg \in ArchiveKeys)

\* C6: as long as no archive has been loaded, get, preloadCache and restore
\* fail with "No bundle loaded.", the cache stays empty and nothing is
\* written to the filesystem or started.
NotLoadedFails ==
  loadedBundle = Undefined =>
    /\ ret.op \in {"get", "preloadCache", "restore"} => Failed(ret.res, NotLoaded)
    /\ IsEmptyObject(cache)
    /\ fs.dirs = {} /\ DOMAIN fs.files = {}
    /\ ops = <<>>

\* restore was refused on an instance that never loaded an archive
NotLoadedRestoreRefused ==
  /\ loadedBundle = Undefined
  /\ ret.op = "restore"
  /\ Failed(ret.res, NotLoaded)

\* bytes that are the UTF-8 encoding of a text
IsUtf8(bytes) == Utf8Encode(Utf8Scan(bytes)) = bytes

\* C7: round trip.  After a tree was bundled, the archive written as JSON
\* and the JSON loaded, a get of the key of a bundled file whose bytes are
\* UTF-8 returns the text of those bytes, with the contentType and the
\* lastModified of the file at build time.
RoundTrip ==
  (ret.op = "get" /\ loadedBundle # Undefined) =>
    \A i \in 1..Len(built.walk.val) :
      LET file == built.walk.val[i]
          node == NodeAt(tree, file)
      IN (RelativePath(BasePath, file) = ret.arg /\ IsUtf8(node.bytes)) =>
           /\ ret.res.ok
           /\ SameMetadata(ret.res.val,
                           [content      |-> Utf8Scan(node.bytes),
                            contentType  |-> GetContentType(file),
                            lastModified |-> LastModified(node)])

\* C8: bundle never returns an archive without entries, and when the walk
\* of the directory yields no file it fails with "No input files found".
NeverEmptyArchive ==
  built.stage # "start" =>
    /\ built.res.ok => ObjectKeys(built.res.val) # <<>>
    /\ (built.walk.ok /\ built.walk.val = <<>>) =>
         Failed(built.res, NoInputFiles)

\* a tree with a file below the directory bundled, an empty filter list,
\* and the build refused
EmptyFilterRefused ==
  /\ built.stage = "bundled"
  /\ built.exts = Filter(<<>>)
  /\ \E n \in tree : n.kind = "file" /\ IsPrefix(Join(BasePath, built.path), n.path)
  /\ Failed(built.res, NoInputFiles)

\* C9: a bundle that succeeds has as many keys as the walk yielded files,
\* different files have different keys, every file's entry is stored under
\* its path relative to basePath, and no key has a backslash.
OneEntryPerFile ==
  (built.stage # "start" /\ built.res.ok) =>
    LET files   == built.walk.val
        archive == built.res.val
        key(i)  == RelativePath(BasePath, files[i])
    IN /\ Len(ObjectKeys(archive)) = Len(files)
       /\ \A i, j \in 1..Len(files) : i # j => key(i) # key(j)
       /\ \A i \in 1..Len(files) :
            /\ key(i) \in DOMAIN archive.own
            /\ SameMetadata(archive.own[key(i)], BundleEntry(tree, files[i]))
       /\ \A k \in DOMAIN archive.own : \A c \in 1..Len(k) : k[c] # "\\"

\* C10: when restore has resolved, every key of the loaded archive has its
\* file below the target, holding the decoded text of the entry, with the
\* access and modification times set to the entry's lastModified in seconds.
RestoreWritesEveryEntry ==
  (ret.op = "restore" /\ ret.res.ok) =>
    \A key \in ArchiveKeys :
      LET restoredFilePath == Join(Target, key)
          entry == DecodedCurrent(key)
      IN /\ restoredFilePath \in DOMAIN fs.files
         /\ fs.files[restoredFilePath].bytes = Utf8Encode(entry.content)
         /\ TimeIs(fs.files[restoredFilePath].atime, entry.lastModified)
         /\ TimeIs(fs.files[restoredFilePath].mtime, entry.lastModified)

\* C11: restore resolves only when, for every key of the loaded archive,
\* the get, the mkdir, the write and the utime have all succeeded: at the
\* step that resolves it, every key has an operation of this call that is
\* done, in a directory that exists, with its file written.
RestoreAllOrNothing ==
  [][(~ret.res.ok /\ ret'.op = "restore" /\ ret'.res.ok) =>
       \A key \in ArchiveKeys :
         \E i \in 1..Len(ops) :
           /\ ops[i].cur
           /\ ops[i].path = Join(Target, key)
           /\ ops[i].st = "done"
           /\ Dirname(ops[i].path) \in fs.dirs
           /\ ops[i].path \in DOMAIN fs.files]_vars

\* restore has resolved on an archive with keys, on a host where the
\* filesystem calls may fail
RestoreResolved ==
  /\ ret.op = "restore"
  /\ ret.res.ok
  /\ ArchiveKeys # {}
  /\ \A key \in ArchiveKeys : Join(Target, key) \in DOMAIN fs.files

\* C12: when preloadCache has returned successfully, every key of the
\* loaded archive has a decoded entry of its own in the cache, and a get
\* of the key is answered with that entry.
PreloadFillsCache ==
  (ret.op = "preloadCache" /\ ret.res.ok) =>
    \A key \in ArchiveKeys :
      /\ key \in DOMAIN cache.own
      /\ IsMetadata(cache.own[key])
      /\ LET g == GetCall(loadedBundle, cache, key)
         IN g.res.ok /\ SameMetadata(g.res.val, cache.own[key])

\* C13: a Bundlee.load(fileUrl) without importType goes through the
\* "import" method (importAsModule), and an instance.import(fileUrl)
\* without importType goes through the "local" method (importLocal).
DefaultsAsDocumented ==
  [][\A src \in {0} \cup DocIds :
       /\ LoadDefault(src) => ret'.arg = <<"importAsModule">>
       /\ ImportDefault(src) => ret'.op = "importLocal"]_vars

\* the regular files below dir, at any depth
FilesUnder(dir) ==
  { n \in tree : /\ n.kind = "file"
                 /\ IsPrefix(Segments(dir), Segments(n.path))
                 /\ Len(Segments(n.path)) > Len(Segments(dir)) }

\* C14: the walk yields exactly the regular files below the scan root, at
\* any depth, that pass the filter: all of them when no list was given,
\* else those whose extension equals a member of the list as it stands;
\* and it yields each of them once.
WalkYieldsFilteredFiles ==
  (built.stage # "start" /\ built.walk.ok) =>
    LET files  == built.walk.val
        passes == { n.path : n \in
                     { m \in FilesUnder(Join(BasePath, built.path)) :
                         \/ ~built.exts.given
                         \/ \E i \in 1..Len(built.exts.list) :
                               built.exts.list[i] = Ext(m.path) } }
    IN /\ { files[i] : i \in 1..Len(files) } = passes
       /\ Len(files) = Cardinality(passes)

\* a walk with a list that yielded the file of a subdirectory and held
\* back another file below the scan root
WalkFiltered ==
  /\ built.stage # "start"
  /\ built.walk.ok
  /\ built.exts.given
  /\ built.walk.val = <<SiteSub(NameB)>>
  /\ built.exts.list = <<TXT>>
  /\ Cardinality(FilesUnder(Join(BasePath, built.path))) > 1

\* a walk whose list names the extension in another case yields no file
\* of that extension
WalkCaseExact ==
  /\ built.stage # "start"
  /\ built.walk.ok
  /\ built.exts.list = <<<<".", "T", "X", "T">>, BIN>>
  /\ built.walk.val = <<Site(NameE)>>
  /\ \E n \in FilesUnder(Join(BasePath, built.path)) : Ext(n.path) = TXT

\* C15: a load that completes while a get is suspended in decoding leaves
\* no mixed state: when the suspended get completes, what it returns and
\* stores in the cache is the decoded entry of the archive that is loaded
\* then, so that the cache holds no entry of the previous archive and a
\* later get is answered from the new one.
NoMixedState ==
  [][(decoding.on /\ ~decoding'.on /\ ret'.res.ok) =>
       /\ decoding.filePath \in ArchiveKeys
       /\ SameMetadata(cache'.own[decoding.filePath],
                       DecodedCurrent(decoding.filePath))
       /\ SameMetadata(GetCall(loadedBundle', cache', decoding.filePath).res.val,
                       DecodedCurrent(decoding.filePath))]_vars

\* C16: restore does not settle, with a result or with an error, while a
\* write or a utime that it started is in progress: whenever no restore
\* is in progress, none of the operations a restore started is.
RestoreWaitsForAll ==
  rs.pc = "idle" =>
    \A i \in 1..Len(ops) : ops[i].st \notin {"writing", "utime"}

\* C17: the walk does not pass over an entry that is neither a regular
\* file nor a directory: when the tree below the scan root holds a
\* symbolic link or a special file, the walk fails and bundle with it, so
\* that bundle returns no archive from a file list that leaves it out.
WalkFailsOnSpecial ==
  (/\ built.stage # "start"
   /\ \E n \in tree :
        /\ n.kind \notin {"file", "dir"}
        /\ IsPrefix(Segments(Join(BasePath, built.path)), Segments(n.path))
        /\ Len(Segments(n.path)) > Len(Segments(Join(BasePath, built.path))))
    => ~built.res.ok

\* an entry whose content is not base64, or not a whole gzip member, or
\* decompresses to bytes that are not UTF-8
Corrupt(metadata) ==
  \/ ~Base64WellFormed(metadata.content)
  \/ ~Gunzip(Base64Decode(metadata.content).val).ok
  \/ ~IsUtf8(Gunzip(Base64Decode(metadata.content).val).val)

\* C18: a get of a key whose entry in the loaded archive is corrupt in one
\* of these three ways fails with a decode error, returns no entry and
\* leaves none under the key in the cache.
GetFailsOnCorrupt ==
  (/\ ret.op = "get"
   /\ ret.arg \in ArchiveKeys
   /\ Corrupt(loadedBundle.own[ret.arg]))
    => /\ Failed(ret.res, DecodeFailed)
       /\ ret.arg \notin DOMAIN cache.own

\* how many of the operations are at this path and in this state
Started(os, path, st) ==
  Cardinality({ i \in 1..Len(os) : os[i].path = path /\ os[i].st = st })

\* C19: the steps of restore for a key happen in order.  Every write that
\* was started has its parent directory made; and a utime is started only
\* by the step in which the write of the same file completes with
\* success, the file then holding what was written: never for a write
\* that failed.
RestoreStepOrder ==
  [][/\ \A i \in 1..Len(ops') : Dirname(ops'[i].path) \in fs'.dirs
     /\ \A path \in { ops'[i].path : i \in 1..Len(ops') } :
          Started(ops', path, "utime") > Started(ops, path, "utime") =>
            /\ Started(ops', path, "writing") = Started(ops, path, "writing") - 1
            /\ path \in DOMAIN fs'.files
            /\ fs'.files[path].mtime = WriteTime
            /\ \E i \in 1..Len(ops') :
                 /\ ops'[i].path = path
                 /\ ops'[i].st = "utime"
                 /\ fs'.files[path].bytes = ops'[i].bytes]_vars

\* within one restore, the write of one key has completed and its utime
\* has been started while the write of another key is still in progress
WritesOverlap ==
  \E i, j \in 1..Len(ops) :
    /\ ops[i].cur /\ ops[j].cur
    /\ ops[i].path # ops[j].path
    /\ ops[i].st = "utime"
    /\ ops[i].path \in DOMAIN fs.files
    /\ Dirname(ops[i].path) \in fs.dirs
    /\ ops[j].st = "writing"

\* C20: has and get agree on existence.  In every state and for every
\* path, has(path) is true exactly when a get(path) made in that state
\* does not fail with the not-found or the not-loaded error.
HasGetAgree ==
  \A filePath \in QueryPaths :
    HasCall(loadedBundle, filePath) <=>
      ~(\/ Failed(GetCall(loadedBundle, cache, filePath).res, NotFound)
        \/ Failed(GetCall(loadedBundle, cache, filePath).res, NotLoaded))

\* a path at or below targetPath
Inside(targetPath, path) ==
  /\ IsAbsolute(path) = IsAbsolute(targetPath)
  /\ IsPrefix(Segments(targetPath), Segments(path))

\* C21: restore writes files only below targetPath, whatever the keys of
\* the archive are: every file on the filesystem, and every file a write
\* was started for, is a descendant of the target.
RestoreStaysInside ==
  /\ \A path \in DOMAIN fs.files :
       Inside(Target, path) /\ path # Target
  /\ \A i \in 1..Len(ops) :
       Inside(Target, ops[i].path) /\ ops[i].path # Target

\* C22: a load that fails leaves the instance as it was.  When the source
\* cannot be read, fetched, parsed or imported, the call fails, and the
\* loaded archive and the cache are what they were, so that has and get
\* answer every path as before.
FailedLoadKeepsState ==
  [][\A src \in ({0} \cup DocIds) \ DOMAIN sources :
       \A importType \in ImportTypes :
         Import(src, importType) =>
           /\ ~ret'.res.ok
           /\ loadedBundle' = loadedBundle
           /\ cache' = cache
           /\ \A filePath \in QueryPaths :
                /\ HasCall(loadedBundle', filePath) = HasCall(loadedBundle, filePath)
                /\ GetCall(loadedBundle', cache', filePath)
                     = GetCall(loadedBundle, cache, filePath)]_vars

\* a load has failed on an instance that holds an archive and has decoded
\* entries in its cache
LoadFailedOnLoaded ==
  /\ ret.op \in LoadOps
  /\ ~ret.res.ok
  /\ loadedBundle # Undefined
  /\ DOMAIN cache.own # {}

=============================================================================
